---- MODULE Spec2Model ----
(***************************************************************************)
(* A model of mmv-rs (src/src/lib.rs): Metric descriptors, the MMV file    *)
(* image written by MMV::map / MMV::write_mmv, the view splitting of       *)
(* MMV::split_mmap_views and the in-place update Metric::set_val.          *)
(*                                                                         *)
(* Files are byte sequences (offset k of the file is element k+1).  The    *)
(* mapping is shared with the file, so a write through a view is a write   *)
(* to the file's bytes.  A panic of the code ends the operation; err holds *)
(* the panic and the state is what the operation had done up to there.     *)
(***************************************************************************)
EXTENDS Integers, Sequences, FiniteSets, TLC

VARIABLES
    pool,     \* the caller's Metric objects, in construction order
    passed,   \* passed[i]: the value last given to a successful set_val on pool[i], or its initial value
    files,    \* files[p]: the bytes of the file at path p
    mapped,   \* mapped[p]: the last map call on path p, [id, n] (id 0: none yet)
    pc,       \* where the running map call stands ("idle": no call running)
    mmv,      \* the MMV object of the running map call: path, flags, cluster_id
    mmap,     \* the Mmap of the running map call: id, len
    w,        \* locals of write_mmv: gen, gen2pos, pos (the cursor), i, and the two help offset positions
    s,        \* locals of split_mmap_views: i, right (offset, len), left_mid_len
    err,      \* outcome of the last operation: "ok" or the panic
    nmaps     \* number of map calls made

vars == <<pool, passed, files, mapped, pc, mmv, mmap, w, s, err, nmaps>>

----------------------------------------------------------------------------
(* Bounds of the model *)

\* most descriptors the caller constructs
MaxN == 3
\* most map calls
MaxMaps == 2
\* most descriptors in the splitting-pass specification
MaxSplitN == 11

----------------------------------------------------------------------------
(* Constants of the format, lib.rs:15-20 *)

HDR_LEN == 40
TOC_BLOCK_LEN == 16
METRIC_BLOCK_LEN == 104
VALUE_BLOCK_LEN == 32
STRING_BLOCK_LEN == 256
METRIC_NAME_MAX_LEN == 64

\* MMVFlags::PROCESS
PROCESS == 2

\* MetricSem
Counter == 1
Instant == 3
Discrete == 4

----------------------------------------------------------------------------
(* Values and their encodings *)

Min(a, b) == IF a < b THEN a ELSE b
Max(a, b) == IF a < b THEN b ELSE a

\* MetricType::I64(x); x within 32 bits here
I64(x) == [tag |-> "I64", v |-> <<x>>]
\* MetricType::F64 with the IEEE-754 fields sign (1 bit), exponent (11 bits)
\* and the 52-bit fraction as its high and low 26 bits
F64(sign, exp, hi, lo) == [tag |-> "F64", v |-> <<sign, exp, hi, lo>>]

\* the little-endian bytes of a u32 (0 <= x < 2^31 here)
LE32(x) == [k \in 1..4 |-> (x \div (256 ^ (k - 1))) % 256]

\* the little-endian two's-complement bytes of an i64 / u64 within 32 bits
LE64(x) == [k \in 1..8 |->
              IF k <= 4 THEN (x \div (256 ^ (k - 1))) % 256
              ELSE IF x < 0 THEN 255 ELSE 0]

\* the little-endian bytes of the IEEE-754 bits of an f64
LEF64(sign, exp, hi, lo) ==
    << lo % 256,
       (lo \div 256) % 256,
       (lo \div 65536) % 256,
       ((lo \div 16777216) % 4) + ((hi % 64) * 4),
       (hi \div 64) % 256,
       (hi \div 16384) % 256,
       ((hi \div 4194304) % 16) + ((exp % 16) * 16),
       ((exp \div 16) % 128) + (sign * 128) >>

\* the 8 bytes write_i64 / write_f64 / write_u64(transmute) puts for a value
ValBytes(val) ==
    IF val.tag = "I64" THEN LE64(val.v[1])
    ELSE LEF64(val.v[1], val.v[2], val.v[3], val.v[4])

\* the type code of a value's tag
TypeCode(val) == IF val.tag = "I64" THEN 2 ELSE 5

\* a text of n bytes
Str(n) == [k \in 1..n |-> 97]

----------------------------------------------------------------------------
(* Layout *)

mmv_size(n) ==
    HDR_LEN + 3 * TOC_BLOCK_LEN +
    n * (METRIC_BLOCK_LEN + VALUE_BLOCK_LEN + 2 * STRING_BLOCK_LEN)

metric_section_offset == HDR_LEN + TOC_BLOCK_LEN * 3
value_section_offset(n) == metric_section_offset + METRIC_BLOCK_LEN * n
\* mutant: the value section is taken to be as long as the metric section
string_section_offset_long(n) == value_section_offset(n) + METRIC_BLOCK_LEN * n
string_section_offset(n) == value_section_offset(n) + VALUE_BLOCK_LEN * n

----------------------------------------------------------------------------
(* The cursor over the mapped slice: [buf, size, pos] *)

\* Cursor<&mut [u8]>::write: as many bytes as fit before the end of the slice
Put(c, bytes) ==
    LET room == Max(c.size - c.pos, 0)
        n    == Min(Len(bytes), room)
    IN  [buf  |-> SubSeq(c.buf, 1, c.pos) \o SubSeq(bytes, 1, n)
                    \o SubSeq(c.buf, c.pos + n + 1, Len(c.buf)),
         size |-> c.size,
         pos  |-> c.pos + n]

SetPos(c, p) == [c EXCEPT !.pos = p]

\* write_str_with_nul!
PutStrNul(c, str) == Put(Put(c, str), <<0>>)

\* reading the image back
U32At(f, off) ==
    f[off + 1] + 256 * f[off + 2] + 65536 * f[off + 3] + 16777216 * f[off + 4]
Bytes(f, off, n) == [k \in 1..n |-> f[off + k]]

----------------------------------------------------------------------------
(* Inputs *)

Paths == {"a"}

\* the arguments of the Metric::new calls: two that the size checks accept (one
\* with every text one byte under its capacity) and three that reach a capacity
ArgTrials ==
    [name |-> Str(METRIC_NAME_MAX_LEN - 1), item |-> 1, sem |-> Counter,
     indom |-> 0, dim |-> 0, init_val |-> I64(-2),
     shorthelp |-> Str(STRING_BLOCK_LEN - 1), longhelp |-> Str(6)]
ArgPi ==
    [name |-> Str(2), item |-> 2, sem |-> Instant,
     indom |-> 0, dim |-> 0, init_val |-> F64(0, 1023, 33554432, 0),
     shorthelp |-> Str(0), longhelp |-> Str(STRING_BLOCK_LEN - 1)]
ArgLongName == [ArgPi EXCEPT !.name = Str(METRIC_NAME_MAX_LEN), !.sem = Discrete]
ArgLongShort == [ArgPi EXCEPT !.shorthelp = Str(STRING_BLOCK_LEN)]
ArgLongLong == [ArgTrials EXCEPT !.longhelp = Str(STRING_BLOCK_LEN)]
NewArgs == {ArgTrials, ArgPi, ArgLongName, ArgLongShort, ArgLongLong}

\* the values given to set_val: the integer 5 and the float 3.14
SetVals == {I64(5), F64(0, 1024, 38252052, 32212255)}

\* what time::now().to_timespec().sec gives
Gens == {258}

\* getpid()
Pid == 4660

\* a file before the first map call: empty, or garbage shorter or longer than any image
PriorShort == [k \in 1..10 |-> 255]
PriorLong == [k \in 1..(mmv_size(MaxN) + 8) |-> 255]

----------------------------------------------------------------------------
(* State *)

\* Option<MmapViewSync>: None, or a view of len bytes at offset of mapping id
NoView == [some |-> FALSE, id |-> 0, path |-> "", offset |-> 0, len |-> 0]
SomeView(id, path, offset, len) ==
    [some |-> TRUE, id |-> id, path |-> path, offset |-> offset, len |-> len]

NoMmv == [path |-> "", flags |-> 0, cluster_id |-> 0]
NoMmap == [id |-> 0, len |-> 0]
NoW == [gen |-> 0, gen2pos |-> 0, pos |-> 0, i |-> 0,
        shorthelp_offset_offset |-> 0, longhelp_offset_offset |-> 0]
NoS == [i |-> 0, right |-> [offset |-> 0, len |-> 0], left_mid_len |-> 0]

\* Metric::new's struct literal
MetricOf(a) ==
    [name |-> a.name, item |-> a.item, sem |-> a.sem, indom |-> a.indom,
     dim |-> a.dim, shorttext |-> a.shorthelp, longtext |-> a.longhelp,
     val |-> a.init_val, mmap_view |-> NoView]

\* mutant: a text may fill its block, leaving no room for the terminator
NewAcceptsFull(a) ==
    /\ Len(a.name) <= METRIC_NAME_MAX_LEN
    /\ Len(a.shorthelp) <= STRING_BLOCK_LEN
    /\ Len(a.longhelp) <= STRING_BLOCK_LEN

\* Metric::new's three assertions
NewAccepts(a) ==
    /\ Len(a.name) < METRIC_NAME_MAX_LEN
    /\ Len(a.shorthelp) < STRING_BLOCK_LEN
    /\ Len(a.longhelp) < STRING_BLOCK_LEN

Init ==
    /\ pool = <<>>
    /\ passed = <<>>
    /\ files \in [Paths -> {<<>>, PriorShort, PriorLong}]
    /\ mapped = [p \in Paths |-> [id |-> 0, n |-> 0]]
    /\ pc = "idle"
    /\ mmv = NoMmv
    /\ mmap = NoMmap
    /\ w = NoW
    /\ s = NoS
    /\ err = "ok"
    /\ nmaps = 0

----------------------------------------------------------------------------
(* Metric::new, Metric::set_val *)

New(a) ==
    /\ pc = "idle"
    /\ IF NewAccepts(a)
       THEN /\ Len(pool) < MaxN
            /\ pool' = Append(pool, MetricOf(a))
            /\ passed' = Append(passed, a.init_val)
            /\ err' = "ok"
       ELSE /\ err' = "assertion failed"
            /\ UNCHANGED <<pool, passed>>
    /\ UNCHANGED <<files, mapped, pc, mmv, mmap, w, s, nmaps>>

\* <&mut [u8] as Write>::write_all of 8 bytes at the start of a view's slice
WriteView(f, view, bytes) ==
    SubSeq(f, 1, view.offset) \o bytes
        \o SubSeq(f, view.offset + Len(bytes) + 1, Len(f))

\* mutant: the tags are not compared
SetValUnchecked(i, new_val) ==
    /\ pc = "idle"
    /\ i \in 1..Len(pool)
    /\ LET m == pool[i] IN
       IF ~m.mmap_view.some
       THEN /\ err' = "metric not yet mapped!"
            /\ UNCHANGED <<pool, passed, files>>
       ELSE /\ files' = [files EXCEPT ![m.mmap_view.path] =
                            WriteView(@, m.mmap_view, ValBytes(new_val))]
            /\ pool' = [pool EXCEPT ![i].val = new_val]
            /\ passed' = [passed EXCEPT ![i] = new_val]
            /\ err' = "ok"
    /\ UNCHANGED <<mapped, pc, mmv, mmap, w, s, nmaps>>

SetVal(i, new_val) ==
    /\ pc = "idle"
    /\ i \in 1..Len(pool)
    /\ LET m == pool[i] IN
       IF ~m.mmap_view.some
       THEN /\ err' = "metric not yet mapped!"
            /\ UNCHANGED <<pool, passed, files>>
       ELSE IF m.val.tag # new_val.tag
       THEN /\ err' = "wrong metric type!"
            /\ UNCHANGED <<pool, passed, files>>
       ELSE IF m.mmap_view.len < 8
       THEN /\ err' = "failed to write whole buffer"
            /\ UNCHANGED <<pool, passed, files>>
       ELSE /\ files' = [files EXCEPT ![m.mmap_view.path] =
                            WriteView(@, m.mmap_view, ValBytes(new_val))]
            /\ pool' = [pool EXCEPT ![i].val = new_val]
            /\ passed' = [passed EXCEPT ![i] = new_val]
            /\ err' = "ok"
    /\ UNCHANGED <<mapped, pc, mmv, mmap, w, s, nmaps>>

----------------------------------------------------------------------------
(* MMV::map: open the file, zero-fill it, map it *)

\* the loop of file.write(&[0]) from the start of the file, n times
ZeroFill(f, n) == [k \in 1..n |-> 0] \o SubSeq(f, n + 1, Len(f))

\* the descriptor list of the running map call: all the caller's descriptors
metrics == pool
n_metrics == Len(metrics)

\* the cursor of write_mmv over the mapped slice of the file
Cur == [buf |-> files[mmv.path], size |-> mmap.len, pos |-> w.pos]

\* what a step of write_mmv leaves: the bytes, the cursor position and the locals
Wrote(c, next, locals) ==
    /\ files' = [files EXCEPT ![mmv.path] = c.buf]
    /\ w' = [locals EXCEPT !.pos = c.pos]
    /\ pc' = next
    /\ UNCHANGED <<pool, passed, mapped, mmv, mmap, s, err, nmaps>>

MapBegin(path, flags, cluster_id) ==
    /\ pc = "idle"
    /\ nmaps < MaxMaps
    /\ nmaps' = nmaps + 1
    /\ mmv' = [path |-> path, flags |-> flags, cluster_id |-> cluster_id]
    /\ files' = [files EXCEPT ![path] = ZeroFill(@, mmv_size(n_metrics))]
    /\ mmap' = [id |-> nmaps + 1, len |-> mmv_size(n_metrics)]
    /\ mapped' = [mapped EXCEPT ![path] = [id |-> nmaps + 1, n |-> n_metrics]]
    /\ w' = NoW
    /\ s' = NoS
    /\ pc' = "magic"
    /\ err' = "ok"
    /\ UNCHANGED <<pool, passed>>

----------------------------------------------------------------------------
(* MMV::write_mmv *)

\* "MMV\0" and the version
WriteMagic ==
    /\ pc = "magic"
    /\ Wrote(Put(PutStrNul(Cur, <<77, 77, 86>>), LE32(1)), "gen1", w)

\* generation1
WriteGen1 ==
    /\ pc = "gen1"
    /\ \E gen \in Gens :
          Wrote(Put(Cur, LE64(gen)), "gen2", [w EXCEPT !.gen = gen])

\* mutant: the placeholder already holds the generation
WriteGen2Eager ==
    /\ pc = "gen2"
    /\ Wrote(Put(Cur, LE64(w.gen)), "header", [w EXCEPT !.gen2pos = w.pos])

\* the generation2 placeholder
WriteGen2 ==
    /\ pc = "gen2"
    /\ Wrote(Put(Cur, LE64(0)), "header", [w EXCEPT !.gen2pos = w.pos])

\* no. of toc blocks, flags, pid, cluster id
WriteHeader ==
    /\ pc = "header"
    /\ Wrote(Put(Put(Put(Put(Cur, LE32(3)), LE32(mmv.flags)), LE32(Pid)),
                 LE32(mmv.cluster_id)),
             "toc", w)

\* the metrics, values and strings TOC blocks
WriteTOC ==
    /\ pc = "toc"
    /\ LET c1 == Put(Put(Put(Cur, LE32(3)), LE32(n_metrics)),
                     LE64(metric_section_offset))
           c2 == Put(Put(Put(c1, LE32(4)), LE32(n_metrics)),
                     LE64(value_section_offset(n_metrics)))
           c3 == Put(Put(Put(c2, LE32(5)), LE32(2 * n_metrics)),
                     LE64(string_section_offset(n_metrics)))
       IN  Wrote(c3, "metric", w)

\* the metric block of metrics[i] (i counts from 0)
WriteMetricBlock ==
    /\ pc = "metric"
    /\ w.i < n_metrics
    /\ LET m  == metrics[w.i + 1]
           metric_block_offset == metric_section_offset + w.i * METRIC_BLOCK_LEN
           c1 == PutStrNul(SetPos(Cur, metric_block_offset), m.name)
           c2 == SetPos(c1, metric_block_offset + METRIC_NAME_MAX_LEN)
           c3 == Put(Put(Put(c2, LE32(m.item)), LE32(TypeCode(m.val))), LE32(m.sem))
           c4 == Put(Put(Put(c3, LE32(m.dim)), LE32(m.indom)), LE32(0))
       IN  Wrote(c4, "value",
                 [w EXCEPT !.shorthelp_offset_offset = c4.pos,
                           !.longhelp_offset_offset = c4.pos + 8])

\* the value block of metrics[i]
WriteValueBlock ==
    /\ pc = "value"
    /\ LET m  == metrics[w.i + 1]
           metric_block_offset == metric_section_offset + w.i * METRIC_BLOCK_LEN
           value_block_offset ==
               value_section_offset(n_metrics) + w.i * VALUE_BLOCK_LEN
           c1 == Put(SetPos(Cur, value_block_offset), ValBytes(m.val))
           c2 == Put(Put(Put(c1, LE64(0)), LE64(metric_block_offset)), LE64(0))
       IN  Wrote(c2, "strings", w)

\* the two string blocks of metrics[i] and their offsets in its metric block
WriteStringBlocks ==
    /\ pc = "strings"
    /\ LET m  == metrics[w.i + 1]
           string_block_offset ==
               string_section_offset(n_metrics) + w.i * 2 * STRING_BLOCK_LEN
           c0 == SetPos(Cur, string_block_offset)
           shorthelp_offset == c0.pos
           c1 == Put(SetPos(c0, w.shorthelp_offset_offset), LE64(shorthelp_offset))
           c2 == PutStrNul(SetPos(c1, shorthelp_offset), m.shorttext)
           longhelp_offset == string_block_offset + STRING_BLOCK_LEN
           c3 == Put(SetPos(c2, w.longhelp_offset_offset), LE64(longhelp_offset))
           c4 == PutStrNul(SetPos(c3, longhelp_offset), m.longtext)
       IN  Wrote(c4, "metric", [w EXCEPT !.i = w.i + 1])

\* unlock header: generation2
Unlock ==
    /\ pc = "metric"
    /\ w.i = n_metrics
    /\ Wrote(Put(SetPos(Cur, w.gen2pos), LE64(w.gen)), "split", w)

----------------------------------------------------------------------------
(* MMV::split_mmap_views *)

\* MmapViewSync::split_at: the two views, or none when the view is too short
SplitOk(view, offset) == offset >= 0 /\ view.len >= offset
SplitLeft(view, offset) == [offset |-> view.offset, len |-> offset]
\* mutant: the right view keeps the offset of the view that was split
SplitRightStuck(view, offset) ==
    [offset |-> view.offset, len |-> view.len - offset]
SplitRight(view, offset) ==
    [offset |-> view.offset + offset, len |-> view.len - offset]

\* the first iteration takes the whole mapping (mmap.into_view_sync())
Right == IF s.i = 0 THEN [offset |-> 0, len |-> mmap.len] ELSE s.right

\* where iteration i splits the unassigned tail
SplitPos ==
    (value_section_offset(n_metrics) + s.i * VALUE_BLOCK_LEN) - s.left_mid_len

\* left_mid_len after an iteration
LeftMidLen(left, middle) == left.len + middle.len

\* one iteration of the loop; a split_at that fails makes its unwrap panic
SplitStep ==
    /\ pc = "split"
    /\ s.i < n_metrics
    /\ IF SplitOk(Right, SplitPos) /\ SplitOk(SplitRight(Right, SplitPos), 8)
       THEN LET left   == SplitLeft(Right, SplitPos)
                r      == SplitRight(Right, SplitPos)
                middle == SplitLeft(r, 8)
            IN  /\ s' = [i |-> s.i + 1,
                         right |-> SplitRight(r, 8),
                         left_mid_len |-> LeftMidLen(left, middle)]
                /\ pool' = [pool EXCEPT ![s.i + 1].mmap_view =
                               SomeView(mmap.id, mmv.path, middle.offset, middle.len)]
                /\ UNCHANGED <<pc, err>>
       ELSE /\ pc' = "idle"
            /\ err' = "called Result::unwrap() on an Err value"
            /\ UNCHANGED <<pool, s>>
    /\ UNCHANGED <<passed, files, mapped, mmv, mmap, w, nmaps>>

\* the loop is over and map returns
MapReturn ==
    /\ pc = "split"
    /\ s.i = n_metrics
    /\ pc' = "idle"
    /\ err' = "ok"
    /\ UNCHANGED <<pool, passed, files, mapped, mmv, mmap, w, s, nmaps>>

----------------------------------------------------------------------------
(* Specifications *)

\* the steps of a running map call
MapStep ==
    \/ WriteMagic
    \/ WriteGen1
    \/ WriteGen2
    \/ WriteHeader
    \/ WriteTOC
    \/ WriteMetricBlock
    \/ WriteValueBlock
    \/ WriteStringBlocks
    \/ Unlock
    \/ SplitStep
    \/ MapReturn

Next ==
    \/ \E a \in NewArgs : New(a)
    \/ \E i \in 1..MaxN, v \in SetVals : SetVal(i, v)
    \/ \E p \in Paths : MapBegin(p, PROCESS, 0)
    \/ MapStep

Spec == Init /\ [][Next]_vars

\* The splitting pass on longer lists: the caller has constructed n descriptors,
\* n up to MaxSplitN, and maps them
ListOf(n) == [k \in 1..n |-> MetricOf(IF k % 2 = 1 THEN ArgTrials ELSE ArgPi)]

InitSplit ==
    /\ \E n \in 0..MaxSplitN :
          /\ pool = ListOf(n)
          /\ passed = [k \in 1..n |-> ListOf(n)[k].val]
    /\ files = [p \in Paths |-> <<>>]
    /\ mapped = [p \in Paths |-> [id |-> 0, n |-> 0]]
    /\ pc = "idle"
    /\ mmv = NoMmv
    /\ mmap = NoMmap
    /\ w = NoW
    /\ s = NoS
    /\ err = "ok"
    /\ nmaps = 0

NextSplit ==
    \/ \E p \in Paths : nmaps = 0 /\ MapBegin(p, PROCESS, 0)
    \/ MapStep

SpecSplit == InitSplit /\ [][NextSplit]_vars

----------------------------------------------------------------------------
(* Reading a state for the properties *)

Zero8 == <<0, 0, 0, 0, 0, 0, 0, 0>>
Gen1(f) == Bytes(f, 8, 8)
Gen2(f) == Bytes(f, 16, 8)

\* the u64 at off is x (x within 32 bits)
U64Is(f, off, x) == U32At(f, off) = x /\ U32At(f, off + 4) = 0

\* the image at path p has been written by a map call and none is rewriting it
Complete(p) ==
    /\ mapped[p].id > 0
    /\ pc \in {"idle", "split"} \/ mmv.path # p

\* descriptor i holds a view of the image last written at its path
Mapped(i) ==
    /\ pool[i].mmap_view.some
    /\ pool[i].mmap_view.id = mapped[pool[i].mmap_view.path].id

\* every TOC entry and every block of the descriptors in list is in the image f
BlocksWritten(f, list) ==
    LET n == Len(list) IN
    /\ U32At(f, 40) = 3 /\ U32At(f, 56) = 4 /\ U32At(f, 72) = 5
    /\ \A i \in 0..(n - 1) :
          LET m == list[i + 1] IN
          /\ Bytes(f, 88 + 104 * i, Len(m.name) + 1) = m.name \o <<0>>
          /\ U32At(f, 88 + 104 * i + 68) \in {2, 5}
          /\ U32At(f, 88 + 104 * i + 88) # 0
          /\ U32At(f, 88 + 104 * i + 96) # 0
          /\ U32At(f, 88 + 104 * n + 32 * i + 16) # 0
          /\ Bytes(f, 88 + 136 * n + 512 * i, Len(m.shorttext) + 1)
                = m.shorttext \o <<0>>
          /\ Bytes(f, 88 + 136 * n + 512 * i + 256, Len(m.longtext) + 1)
                = m.longtext \o <<0>>

----------------------------------------------------------------------------
(* Properties *)

\* C1: a successful set_val on descriptor i (counted from 0) of a list of N
\* changes no byte of any file outside [88 + 104*N + 32*i, 88 + 104*N + 32*i + 8)
\* of its own mapping.
C1_SetValFrame ==
    [][\A i \in 1..Len(pool), v \in SetVals :
         (SetVal(i, v) /\ err' = "ok") =>
            LET h  == pool[i].mmap_view
                lo == 88 + 104 * mapped[h.path].n + 32 * (i - 1)
            IN  \A p \in Paths :
                   /\ Len(files'[p]) = Len(files[p])
                   /\ \A k \in 1..Len(files[p]) :
                         files'[p][k] # files[p][k] =>
                            p = h.path /\ k - 1 >= lo /\ k - 1 < lo + 8]_vars

\* C2: with no map call running, the 8 bytes at 88 + 104*N + 32*i of the image
\* are the little-endian encoding of the value last passed to set_val on
\* descriptor i (or its initial value), and val() returns that value.
C2_SlotHoldsValue ==
    pc = "idle" =>
       \A i \in 1..Len(pool) :
          Mapped(i) =>
             LET h == pool[i].mmap_view IN
             /\ Bytes(files[h.path], 88 + 104 * mapped[h.path].n + 32 * (i - 1), 8)
                   = ValBytes(passed[i])
             /\ pool[i].val = passed[i]

\* C3: at every point of the splitting loop and after it, each handle is 8
\* bytes long and lies inside its mapping, and the handles two descriptors got
\* from one map call share no byte.
C3_HandlesDisjoint ==
    \A i \in 1..Len(pool) :
       LET h == pool[i].mmap_view IN
       h.some =>
          /\ h.len = 8
          /\ h.offset >= 0
          /\ Mapped(i) => h.offset + h.len <= 88 + 648 * mapped[h.path].n
          /\ \A j \in 1..Len(pool) :
                LET g == pool[j].mmap_view IN
                (j # i /\ g.some /\ g.id = h.id) =>
                   (h.offset + h.len <= g.offset \/ g.offset + g.len <= h.offset)

C3_Witness ==
    /\ pc = "idle"
    /\ Len(pool) >= 3
    /\ \A i \in 1..Len(pool) : Mapped(i)

\* the generation fields while a map call runs and once an image is complete
C4_GenInv ==
    /\ pc # "idle" =>
          LET f == files[mmv.path] IN
          /\ (Gen1(f) = Gen2(f) /\ Gen1(f) # Zero8) => BlocksWritten(f, pool)
          /\ (\E k \in 41..(88 + 648 * Len(pool)) : f[k] # 0) => Gen1(f) # Zero8
          /\ ~BlocksWritten(f, pool) => Gen2(f) = Zero8
          /\ pc \in {"header", "toc", "metric", "value", "strings"} =>
                Gen1(f) # Zero8 /\ Gen2(f) = Zero8
    /\ \A p \in Paths :
          Complete(p) => Gen1(files[p]) = Gen2(files[p]) /\ Gen1(files[p]) # Zero8

\* C4: while a map call runs, the two generation fields are never equal and
\* nonzero with a block of the image still unwritten; generation1 is nonzero
\* before any byte of a TOC entry or block is; generation2 is zero until every
\* block is written; once generation2 is written the call writes nothing more;
\* and the two fields are equal and nonzero once the encoder is done.
C4_Publication ==
    /\ []C4_GenInv
    /\ [][(pc # "idle" /\ Gen2(files[mmv.path]) # Zero8) => files' = files]_vars

C4_Witness ==
    /\ pc = "strings"
    /\ w.i = 1
    /\ Len(pool) >= 2
    /\ Gen1(files[mmv.path]) # Zero8
    /\ Gen2(files[mmv.path]) = Zero8

\* C5: after map over N descriptors the file is exactly 40 + 3*16 +
\* N*(104 + 32 + 2*256) bytes long whatever it held before, and the bytes of
\* the image that the encoder skips (after a name, in a value block beside
\* the value and the back-offset, after a help text) are zero.
C5_FileSize ==
    \A p \in Paths :
       (mapped[p].id > 0 /\ mmv.path = p /\ pc = "split") =>
          LET f == files[p]
              n == mapped[p].n
          IN  /\ Len(f) = 40 + 3 * 16 + n * (104 + 32 + 2 * 256)
              /\ \A i \in 0..(n - 1) :
                    LET m == pool[i + 1] IN
                    /\ \A k \in (Len(m.name) + 1)..63 : f[88 + 104 * i + k + 1] = 0
                    /\ U64Is(f, 88 + 104 * n + 32 * i + 8, 0)
                    /\ U64Is(f, 88 + 104 * n + 32 * i + 24, 0)
                    /\ \A k \in (Len(m.shorttext) + 1)..255 :
                          f[88 + 136 * n + 512 * i + k + 1] = 0
                    /\ \A k \in (Len(m.longtext) + 1)..255 :
                          f[88 + 136 * n + 512 * i + 256 + k + 1] = 0

\* C6: a written image over N descriptors has TOC entries (3, N, 88),
\* (4, N, 88 + 104*N), (5, 2N, 88 + 136*N); value block i points back to metric
\* block i at 88 + 104*i; metric block i points to its string blocks at
\* 88 + 136*N + 512*i and + 256; every block these offsets designate lies
\* inside the image of 88 + 648*N bytes, and no two of them overlap.
C6_ImageConsistent ==
    \A p \in Paths :
       Complete(p) =>
          LET f   == files[p]
              n   == mapped[p].n
              blk == [k \in 1..(3 * n) |->
                        IF k <= n
                        THEN [off |-> U32At(f, 88 + 104 * n + 32 * (k - 1) + 16),
                              len |-> 104]
                        ELSE IF k <= 2 * n
                        THEN [off |-> U32At(f, 88 + 104 * (k - n - 1) + 88),
                              len |-> 256]
                        ELSE [off |-> U32At(f, 88 + 104 * (k - 2 * n - 1) + 96),
                              len |-> 256]]
          IN  /\ U32At(f, 40) = 3 /\ U32At(f, 44) = n /\ U64Is(f, 48, 88)
              /\ U32At(f, 56) = 4 /\ U32At(f, 60) = n
              /\ U64Is(f, 64, 88 + 104 * n)
              /\ U32At(f, 72) = 5 /\ U32At(f, 76) = 2 * n
              /\ U64Is(f, 80, 88 + 136 * n)
              /\ \A i \in 0..(n - 1) :
                    /\ U64Is(f, 88 + 104 * n + 32 * i + 16, 88 + 104 * i)
                    /\ U64Is(f, 88 + 104 * i + 88, 88 + 136 * n + 512 * i)
                    /\ U64Is(f, 88 + 104 * i + 96, 88 + 136 * n + 512 * i + 256)
              /\ \A k \in 1..(3 * n) :
                    /\ blk[k].off >= 88
                    /\ blk[k].off + blk[k].len <= 88 + 648 * n
                    /\ blk[k].off + blk[k].len <= Len(f)
                    /\ \A j \in 1..(3 * n) :
                          j # k => (blk[k].off + blk[k].len <= blk[j].off
                                    \/ blk[j].off + blk[j].len <= blk[k].off)

C6_Witness ==
    \E p \in Paths :
       /\ pc = "idle"
       /\ mapped[p].id > 0
       /\ mapped[p].n >= 2
       /\ U32At(files[p], 76) = 2 * mapped[p].n

\* the type code in the metric block of a mapped descriptor is that of its tag
C7_TypeCode ==
    \A i \in 1..Len(pool) :
       (Mapped(i) /\ Complete(pool[i].mmap_view.path)) =>
          U32At(files[pool[i].mmap_view.path], 88 + 104 * (i - 1) + 68)
             = (IF pool[i].val.tag = "I64" THEN 2 ELSE 5)

\* C7: set_val on a mapped descriptor with a value of the other tag panics
\* with "wrong metric type!" and changes no byte of any file, nor the
\* descriptor; no step ever changes a descriptor's tag; and the type code in
\* the metric block of a mapped descriptor is 2 for an integer and 5 for a float.
C7_TypeMismatch ==
    /\ []C7_TypeCode
    /\ [][\A i \in 1..Len(pool), v \in SetVals :
            (SetVal(i, v) /\ pool[i].mmap_view.some /\ v.tag # pool[i].val.tag) =>
               /\ err' = "wrong metric type!"
               /\ files' = files
               /\ pool' = pool]_vars
    /\ [][\A i \in 1..Len(pool) : pool'[i].val.tag = pool[i].val.tag]_vars

C7_Witness ==
    /\ err = "wrong metric type!"
    /\ \E i \in 1..Len(pool) : Mapped(i)

\* every text of a descriptor leaves room for its terminator
C8_Lengths ==
    \A i \in 1..Len(pool) :
       /\ Len(pool[i].name) <= 63
       /\ Len(pool[i].shorttext) <= 255
       /\ Len(pool[i].longtext) <= 255

\* C8: Metric::new panics for a name of 64 bytes or more and for a short or
\* long help of 256 bytes or more, leaving the descriptors and every file as
\* they were; it constructs the descriptor for a name of up to 63 bytes with
\* helps of up to 255 bytes; so no descriptor ever holds a longer text.
C8_NewValidates ==
    /\ []C8_Lengths
    /\ [][\A a \in NewArgs :
            New(a) =>
               IF Len(a.name) >= 64 \/ Len(a.shorthelp) >= 256 \/ Len(a.longhelp) >= 256
               THEN /\ err' = "assertion failed"
                    /\ pool' = pool
                    /\ files' = files
               ELSE /\ err' = "ok"
                    /\ Len(pool') = Len(pool) + 1
                    /\ pool'[Len(pool')].name = a.name
                    /\ pool'[Len(pool')].shorttext = a.shorthelp
                    /\ pool'[Len(pool')].longtext = a.longhelp
                    /\ files' = files]_vars

C8_Witness ==
    /\ err = "assertion failed"
    /\ \E i \in 1..Len(pool) :
          Len(pool[i].name) = 63 /\ Len(pool[i].shorttext) = 255
    /\ \E i \in 1..Len(pool) : Len(pool[i].longtext) = 255

\* C9: once a descriptor holds a handle no step gives it another, and the
\* bytes under its handle change only in a set_val on that descriptor.
C9_OneHandle ==
    [][\A i \in 1..Len(pool) :
         LET h == pool[i].mmap_view IN
         h.some =>
            /\ pool'[i].mmap_view = h
            /\ Bytes(files'[h.path], h.offset, h.len) # Bytes(files[h.path], h.offset, h.len)
                  => \E v \in SetVals : SetVal(i, v)]_vars

\* C10: every iteration of the splitting pass splits at a non-negative position
\* inside the unassigned tail and leaves 8 bytes for the handle; map returns
\* without a panic and every descriptor of the list holds a handle.
C10_SplitCompletes ==
    /\ (pc = "split" /\ s.i < Len(pool)) =>
          /\ SplitPos >= 0
          /\ SplitPos <= Right.len
          /\ SplitPos + 8 <= Right.len
    /\ (pc = "idle" /\ nmaps > 0) =>
          /\ err = "ok"
          /\ \A i \in 1..Len(pool) : pool[i].mmap_view.some

====
